---- MODULE Spec2Model ----
(***************************************************************************)
(* Model of the Terraform Cloud -> S3 state migration tool                 *)
(* (src/tfc-to-s3-migration/main.py): the key deriver                      *)
(* parse_prefixed_workspace and the per-workspace processing loop of main. *)
(*                                                                         *)
(* Strings that the code inspects (workspace names, known suffixes) are    *)
(* sequences of one-character strings; string literals that the code only  *)
(* concatenates are single tokens.                                         *)
(***************************************************************************)
EXTENDS Integers, Sequences, FiniteSets, TLC

\* ------------------------------------------------------------------ bounds
\* Largest number of workspaces one enumeration yields.
MaxWs == 2
\* Largest number of name parts a generated workspace name is built from.
MaxParts == 2
\* Largest number of invocations that derive the key of one workspace name.
MaxRuns == 2

\* --------------------------------------------------------------- strings
UpperCase == <<"A","B","C","D","E","F","G","H","I","J","K","L","M",
               "N","O","P","Q","R","S","T","U","V","W","X","Y","Z">>
LowerCase == <<"a","b","c","d","e","f","g","h","i","j","k","l","m",
               "n","o","p","q","r","s","t","u","v","w","x","y","z">>
Digits == {"0","1","2","3","4","5","6","7","8","9"}

Range(s) == {s[i] : i \in DOMAIN s}

UpperSet == Range(UpperCase)
LowerSet == Range(LowerCase)

IsUpper(c) == c \in UpperSet
IsLower(c) == c \in LowerSet

\* The character class [A-Za-z0-9] of the look-behind.
IsAlnum(c) == IsUpper(c) \/ IsLower(c) \/ c \in Digits

\* \w under re.ASCII: [A-Za-z0-9_].
IsWordChar(c) == IsAlnum(c) \/ c = "_"

\* Case folding of re.IGNORECASE under re.ASCII.
Lower(c) ==
    IF IsUpper(c)
    THEN LowerCase[CHOOSE i \in DOMAIN UpperCase : UpperCase[i] = c]
    ELSE c

\* The set literal of main.py, lines 36-41.
WELL_KNOWN_WORKSPACES ==
    { <<"d","e","f","a","u","l","t">>,
      <<"d","e","v">>,
      <<"s","t","g">>,
      <<"p","r","o","d">> }

DEFAULT == <<"d","e","f","a","u","l","t">>

\* Iteration orders of a set: Python iterates a set of str in an order that
\* depends on the per-process hash seed.
IterationOrders(S) ==
    { o \in [1..Cardinality(S) -> S] : \A x \in S : \E i \in DOMAIN o : o[i] = x }

\* The orders in which `for ws in well_known_workspaces` may visit the set.
SuffixOrders == IterationOrders(WELL_KNOWN_WORKSPACES)

\* ------------------------------------------------ parse_prefixed_workspace
AtDollar_Unanchored(name, p) == TRUE

\* `$`: the end of the string, or just before a newline that ends the string.
AtDollar(name, p) ==
    \/ p = Len(name) + 1
    \/ p = Len(name) /\ name[p] = "\n"

\* `\b` at position p (between name[p-1] and name[p]).
AtWordBoundary(name, p) ==
    LET before == p > 1 /\ p - 1 <= Len(name) /\ IsWordChar(name[p - 1])
        after  == p >= 1 /\ p <= Len(name) /\ IsWordChar(name[p])
    IN  before # after

LookBehindOk_Missing(name, p) == TRUE

\* (?<![A-Za-z0-9]) at position p.
LookBehindOk(name, p) == p = 1 \/ ~IsAlnum(name[p - 1])

\* The pattern (?<![A-Za-z0-9])ws\b$ matched with ws starting at position p.
MatchesAt(name, wsname, p) ==
    /\ p >= 1
    /\ p + Len(wsname) - 1 <= Len(name)
    /\ AtDollar(name, p + Len(wsname))
    /\ LookBehindOk(name, p)
    /\ \A i \in 1..Len(wsname) : Lower(name[p + i - 1]) = Lower(wsname[i])
    /\ AtWordBoundary(name, p + Len(wsname))

\* re.search(pattern, name, flags=re.ASCII | re.IGNORECASE) is not None.
ReSearch(name, wsname) == \E p \in 1..Len(name) : MatchesAt(name, wsname, p)

\* name[:-len(ws) - 1]
StripSuffix(name, wsname) == SubSeq(name, 1, Len(name) - Len(wsname) - 1)

RECURSIVE ParseFrom(_, _, _)
ParseFrom(name, order, i) ==
    IF i > Len(order) THEN <<name, <<>>>>
    ELSE IF ReSearch(name, order[i]) THEN <<StripSuffix(name, order[i]), order[i]>>
    ELSE ParseFrom(name, order, i + 1)

\* `order` is the order in which the for loop visits well_known_workspaces.
parse_prefixed_workspace(name, order) == ParseFrom(name, order, 1)

\* main.py lines 353-356.
s3_object_key(state_name, workspace) ==
    IF workspace = <<>> \/ workspace \in {DEFAULT}
    THEN state_name \o <<"/terraform.tfstate">>
    ELSE <<"env:/">> \o workspace \o <<"/">> \o state_name \o <<"/terraform.tfstate">>

\* ------------------------------------------------------------ environment
\* Workspace records as the remote service lists them (id, attributes.name).
WS_APP_DEV == [id |-> "ws-1", name |-> <<"a","p","p","-","d","e","v">>]
WS_APP_UDEV == [id |-> "ws-2", name |-> <<"a","p","p","_","d","e","v">>]
WS_APP == [id |-> "ws-3", name |-> <<"a","p","p">>]

WsUniverse == {WS_APP_DEV, WS_APP_UDEV, WS_APP}
WsNames == {w.name : w \in WsUniverse}
NoWs == [id |-> "", name |-> <<>>]

\* Every enumeration of at most MaxWs workspaces; a record may repeat.
Enumerations == UNION {[1..n -> WsUniverse] : n \in 0..MaxWs}

\* What a remote call can end in. "Interrupt" is a KeyboardInterrupt raised
\* while the call is in progress, "Error" any exception main does not name.
LockOutcomes == {"ok", "Conflict", "Error", "Interrupt"}
MetadataOutcomes == {"ok", "NotFound", "Error", "Interrupt"}
StateOutcomes == {"ok", "Error", "Interrupt"}
UnlockOutcomes == {"ok", "Conflict", "Error"}
\* How an unlock request ended as far as the finally clause tells: it swallows
\* TFCHTTPConflict (lines 343-347), so only an exception that leaves it shows.
Swallowed(o) == IF o = "Error" THEN "Error" ELSE "returned"
UploadOutcomes == {"ok", "Error"}

LogKinds == {"lock", "meta", "state", "unlock", "upload"}

\* Workspace names for the key deriver: every concatenation of at most
\* MaxParts of these parts (letters, digits, "-" and "_", the characters a
\* workspace name is made of), and the names the documentation gives.
NameParts ==
    { <<"-">>, <<"_">>, <<"1">>, <<"m","y">>, <<"o","p","s">>,
      <<"d","e","v">>, <<"D","e","v">>, <<"P","R","O","D">>,
      <<"p","r","o","d">>, <<"s","t","g">>,
      <<"d","e","f","a","u","l","t">> }

RECURSIVE NamesOf(_)
NamesOf(k) ==
    IF k = 0 THEN {<<>>}
    ELSE LET shorter == NamesOf(k - 1)
         IN  shorter \cup {n \o part : n \in shorter, part \in NameParts}

BACKEND_SVC_DEV == <<"b","a","c","k","e","n","d","_","s","v","c","-","d","e","v">>
MYDEVOPS == <<"m","y","d","e","v","o","p","s">>
DEV_PROD == <<"d","e","v","-","p","r","o","d">>

Names == (NamesOf(MaxParts) \ {<<>>}) \cup {BACKEND_SVC_DEV, MYDEVOPS, DEV_PROD}

\* ------------------------------------------------------------------ state
VARIABLES
    args,               \* the parsed command line
    workspaces,         \* what the enumeration yields, in order
    fs,                 \* the local cache directory and metadata files
    pc,                 \* position in main
    got_ws,             \* enumerate() index of the current workspace
    ws,                 \* the current workspace record, ws[0]
    total_ws_count,
    uploaded_ws_count,
    skipped_workspaces,
    metadata,           \* hosted-state-download-url of the current metadata
    tfstate,            \* downloaded state content
    pending,            \* what the try statement does once finally has run
    exit_status,
    s3,                 \* objects of the bucket: set of [key, data]
    skipped_file,       \* skipped_workspaces.json
    writes,             \* local files and directories written by this run
    reqs,               \* remote requests issued by this run
    log,                \* INFO entries announcing an action, per kind
    stats_report,       \* what --stats printed
    run,                \* 1 for the first invocation, 2 for a re-run
    prev,               \* what the first invocation left behind
    p_name,             \* a workspace name whose key is derived
    p_results,          \* what successive invocations derived for p_name
    d_arg,              \* a command-line argument given to dt_regex
    d_result            \* what dt_regex did with d_arg

mainvars == <<args, workspaces, fs, pc, got_ws, ws, total_ws_count,
              uploaded_ws_count, skipped_workspaces, metadata, tfstate,
              pending, exit_status, s3, skipped_file, writes, reqs, log,
              stats_report>>
rerunvars == <<run, prev>>
parsevars == <<p_name, p_results>>
dtvars == <<d_arg, d_result>>
vars == <<mainvars, rerunvars, parsevars, dtvars>>

NoReport == [total |-> -1, uploaded |-> -1, skipped |-> -1]
NoPrev == [args |-> [dry_run |-> FALSE], reqs |-> {}, log |-> [k \in LogKinds |-> 0],
           exit_status |-> -1]

\* The flags main reads before the loop ends; --stats is read at line 380 only
\* and is drawn there.
ArgSets ==
    [dry_run : BOOLEAN, skip_lock : BOOLEAN, cache_dir : BOOLEAN,
     limit_workspaces : 0..MaxWs]

\* The locals of main as lines 252-256 leave them.
MainLocals ==
    /\ pc = "start"
    /\ got_ws = 0
    /\ ws = NoWs
    /\ total_ws_count = 0
    /\ uploaded_ws_count = 0
    /\ skipped_workspaces = <<>>
    /\ metadata = <<>>
    /\ tfstate = <<>>
    /\ pending = "none"
    /\ exit_status = -1
    /\ writes = {}
    /\ reqs = {}
    /\ log = [k \in LogKinds |-> 0]
    /\ stats_report = NoReport

InitParseIdle ==
    /\ p_name = <<>>
    /\ p_results = <<>>

\* dt_regex has not been called.
NoDtResult == [raised |-> FALSE, value |-> <<"pending">>]

InitDtIdle ==
    /\ d_arg = <<>>
    /\ d_result = NoDtResult

Init ==
    /\ args \in ArgSets
    /\ workspaces \in Enumerations
    /\ fs \in [dir : IF args.cache_dir THEN {"existed", "missing"} ELSE {"none"},
               meta : {[n \in WsNames |-> "unknown"]}]
    /\ MainLocals
    /\ s3 = {}
    /\ skipped_file = [written |-> FALSE, content |-> <<>>]
    /\ run = 1
    /\ prev = NoPrev
    /\ InitParseIdle
    /\ InitDtIdle

\* ---------------------------------------------------------------- helpers
Locking_IgnoresDryRun == ~args.skip_lock

\* not args.skip_lock and not args.dry_run
Locking == ~args.skip_lock /\ ~args.dry_run

Logged(l, kind) == [l EXCEPT ![kind] = @ + 1]

\* A remote request: what, from which place of main, for which workspace, and
\* how it ended (key and data are those of an upload).
Req(op, site, res) ==
    [op |-> op, site |-> site, n |-> got_ws, id |-> ws.id, res |-> res,
     key |-> <<>>, data |-> <<>>]

\* x in list
InList(x, list) == \E i \in DOMAIN list : list[i] = x

LimitReached_OffByOne(n, limit) == limit # 0 /\ n >= limit

\* Lines 275-280: the loop is left when a limit is set and the index of the
\* item just taken exceeds it.
LimitReached(n, limit) == limit # 0 /\ n > limit

SkipAppend_Always(list, w) == Append(list, w)

SkipAppend_Front(list, w) == IF ~InList(w, list) THEN <<w>> \o list ELSE list

\* Lines 335-336.
SkipAppend(list, w) == IF ~InList(w, list) THEN Append(list, w) ELSE list

\* ----------------------------------------------------------------- actions
\* Lines 244-256: the cache directory is made when caching is on, the run is
\* not a dry run and the directory is not there.
Start ==
    /\ pc = "start"
    /\ IF args.cache_dir /\ ~args.dry_run /\ fs.dir = "missing"
       THEN /\ fs' = [fs EXCEPT !.dir = "created"]
            /\ writes' = writes \cup {<<"cache_dir">>}
       ELSE UNCHANGED <<fs, writes>>
    /\ pc' = "loop"
    /\ UNCHANGED <<args, workspaces, got_ws, ws, total_ws_count,
                   uploaded_ws_count, skipped_workspaces, metadata, tfstate,
                   pending, exit_status, s3, skipped_file, reqs, log,
                   stats_report, rerunvars, parsevars, dtvars>>

\* Lines 274-284: the next item of enumerate(workspaces, start=1), the limit
\* check, and the per-workspace locals.
NextWorkspace ==
    /\ pc = "loop"
    /\ IF got_ws >= Len(workspaces)
       THEN /\ pc' = "save"
            /\ UNCHANGED <<got_ws, ws, total_ws_count>>
       ELSE /\ got_ws' = got_ws + 1
            /\ ws' = workspaces[got_ws + 1]
            /\ IF LimitReached(got_ws + 1, args.limit_workspaces)
               THEN /\ pc' = "save"
                    /\ UNCHANGED total_ws_count
               ELSE /\ pc' = "lock"
                    /\ total_ws_count' = Len(workspaces)
    /\ UNCHANGED <<args, workspaces, fs, uploaded_ws_count, skipped_workspaces,
                   metadata, tfstate, pending, exit_status, s3, skipped_file,
                   writes, reqs, log, stats_report, rerunvars, parsevars, dtvars>>

Raised_NotFoundSkips(exc) ==
    CASE exc = "Interrupt" -> /\ pc' = "except_interrupt"
                              /\ pending' = "none"
      [] exc \in {"NotFound", "Conflict"} -> /\ pc' = "except_conflict"
                                            /\ pending' = "none"
      [] OTHER             -> /\ pc' = "finally"
                              /\ pending' = "raise"

Raised_BypassesFinally(exc) ==
    CASE exc = "Interrupt" -> /\ pc' = "except_interrupt"
                              /\ pending' = "none"
      [] exc = "NotFound"  -> /\ pc' = "loop"
                              /\ pending' = "none"
      [] exc = "Conflict"  -> /\ pc' = "except_conflict"
                              /\ pending' = "none"
      [] OTHER             -> /\ pc' = "finally"
                              /\ pending' = "raise"

\* Where an exception raised in the try body (lines 286-323) lands.
Raised(exc) ==
    CASE exc = "Interrupt" -> /\ pc' = "except_interrupt"
                              /\ pending' = "none"
      [] exc = "NotFound"  -> /\ pc' = "except_notfound"
                              /\ pending' = "none"
      [] exc = "Conflict"  -> /\ pc' = "except_conflict"
                              /\ pending' = "none"
      [] OTHER             -> /\ pc' = "finally"
                              /\ pending' = "raise"

\* Lines 287-290.
LockWorkspace ==
    /\ pc = "lock"
    /\ IF Locking
       THEN /\ log' = Logged(log, "lock")
            /\ \E o \in LockOutcomes :
                 /\ reqs' = reqs \cup {Req("lock", "try", o)}
                 /\ IF o = "ok"
                    THEN pc' = "meta" /\ pending' = "none"
                    ELSE Raised(o)
       ELSE /\ pc' = "meta"
            /\ UNCHANGED <<log, reqs, pending>>
    /\ UNCHANGED <<args, workspaces, fs, got_ws, ws, total_ws_count,
                   uploaded_ws_count, skipped_workspaces, metadata, tfstate,
                   exit_status, s3, skipped_file, writes, stats_report,
                   rerunvars, parsevars, dtvars>>

\* The metadata file get_tfstate_metadata finds at cache_dir/<name>.meta.json:
\* "nofile" when no cache directory is configured, otherwise what this run
\* has seen or written there, or, on first sight, what an earlier run left.
MetadataFiles ==
    IF ~args.cache_dir THEN {"nofile"}
    ELSE IF fs.meta[ws.name] # "unknown" THEN {fs.meta[ws.name]}
    ELSE IF fs.dir = "existed" THEN {"absent", "corrupt", "stale"}
    ELSE {"absent"}

SeenFile(f) == IF f = "nofile" THEN fs ELSE [fs EXCEPT !.meta[ws.name] = f]

\* Lines 292-309 with get_tfstate_metadata (lines 129-167): a readable file is
\* used as is; a corrupt one falls back to a download that is not cached; with
\* no file the metadata is downloaded and, unless dry_run, written to the file.
FetchMetadata ==
    /\ pc = "meta"
    /\ log' = Logged(log, "meta")
    /\ \E f \in MetadataFiles :
         IF f \in {"stale", "fresh"}
         THEN /\ metadata' = <<ws.id, IF f = "stale" THEN "cached" ELSE "current">>
              /\ fs' = SeenFile(f)
              /\ pc' = "state"
              /\ UNCHANGED <<reqs, writes, pending>>
         ELSE \E o \in MetadataOutcomes :
              /\ reqs' = reqs \cup {Req("metadata", "try", o)}
              /\ IF o = "ok"
                 THEN /\ metadata' = <<ws.id, "current">>
                      /\ pc' = "state"
                      /\ pending' = "none"
                      /\ IF f = "absent" /\ ~args.dry_run
                         THEN /\ fs' = SeenFile("fresh")
                              /\ writes' = writes \cup {<<"meta", ws.name>>}
                         ELSE /\ fs' = SeenFile(f)
                              /\ UNCHANGED writes
                 ELSE /\ Raised(o)
                      /\ fs' = SeenFile(f)
                      /\ UNCHANGED <<metadata, writes>>
    /\ UNCHANGED <<args, workspaces, got_ws, ws, total_ws_count,
                   uploaded_ws_count, skipped_workspaces, tfstate, exit_status,
                   s3, skipped_file, stats_report, rerunvars, parsevars, dtvars>>

\* Lines 311-323 with get_tfstate_content (lines 170-193).
FetchState ==
    /\ pc = "state"
    /\ log' = Logged(log, "state")
    /\ \E o \in StateOutcomes :
         /\ reqs' = reqs \cup {Req("state", "try", o)}
         /\ IF o = "ok"
            THEN /\ tfstate' = metadata
                 /\ writes' = IF args.cache_dir /\ ~args.dry_run
                              THEN writes \cup {<<"tfstate", ws.name>>}
                              ELSE writes
                 /\ pc' = "finally"
                 /\ pending' = "fallthrough"
            ELSE /\ Raised(o)
                 /\ UNCHANGED <<tfstate, writes>>
    /\ UNCHANGED <<args, workspaces, fs, got_ws, ws, total_ws_count,
                   uploaded_ws_count, skipped_workspaces, metadata, exit_status,
                   s3, skipped_file, stats_report, rerunvars, parsevars, dtvars>>

\* Lines 324-328: the unlock call is not guarded, so an exception it raises
\* leaves the handler before sys.exit(130) is reached.
ExceptKeyboardInterrupt ==
    /\ pc = "except_interrupt"
    /\ IF Locking
       THEN /\ log' = Logged(log, "unlock")
            /\ \E o \in UnlockOutcomes :
                 /\ reqs' = reqs \cup {Req("unlock", "except", o)}
                 /\ pending' = IF o = "ok" THEN "exit" ELSE "raise"
       ELSE /\ pending' = "exit"
            /\ UNCHANGED <<log, reqs>>
    /\ pc' = "finally"
    /\ UNCHANGED <<args, workspaces, fs, got_ws, ws, total_ws_count,
                   uploaded_ws_count, skipped_workspaces, metadata, tfstate,
                   exit_status, s3, skipped_file, writes, stats_report,
                   rerunvars, parsevars, dtvars>>

\* Lines 329-332.
ExceptNotFound ==
    /\ pc = "except_notfound"
    /\ pending' = "continue"
    /\ pc' = "finally"
    /\ UNCHANGED <<args, workspaces, fs, got_ws, ws, total_ws_count,
                   uploaded_ws_count, skipped_workspaces, metadata, tfstate,
                   exit_status, s3, skipped_file, writes, reqs, log,
                   stats_report, rerunvars, parsevars, dtvars>>

\* Lines 333-337.
ExceptConflict ==
    /\ pc = "except_conflict"
    /\ skipped_workspaces' = SkipAppend(skipped_workspaces, ws)
    /\ pending' = "continue"
    /\ pc' = "finally"
    /\ UNCHANGED <<args, workspaces, fs, got_ws, ws, total_ws_count,
                   uploaded_ws_count, metadata, tfstate, exit_status, s3,
                   skipped_file, writes, reqs, log, stats_report, rerunvars,
                   parsevars, dtvars>>

\* What the try statement goes on to once the finally clause has completed.
Resume ==
    CASE pending = "fallthrough" -> pc' = "upload" /\ UNCHANGED exit_status
      [] pending = "continue"    -> pc' = "loop" /\ UNCHANGED exit_status
      [] pending = "exit"        -> pc' = "done" /\ exit_status' = 130
      [] OTHER                   -> pc' = "done" /\ exit_status' = 1

\* Lines 338-347: an exception of the unlock call other than TFCHTTPConflict
\* replaces whatever was pending and ends the process.
Finally ==
    /\ pc = "finally"
    /\ IF Locking
       THEN /\ log' = Logged(log, "unlock")
            /\ \E o \in UnlockOutcomes :
                 /\ reqs' = reqs \cup {Req("unlock", "finally", Swallowed(o))}
                 /\ IF o = "Error"
                    THEN pc' = "done" /\ exit_status' = 1
                    ELSE Resume
       ELSE /\ Resume
            /\ UNCHANGED <<log, reqs>>
    /\ pending' = "none"
    /\ UNCHANGED <<args, workspaces, fs, got_ws, ws, total_ws_count,
                   uploaded_ws_count, skipped_workspaces, metadata, tfstate,
                   s3, skipped_file, writes, stats_report, rerunvars, parsevars, dtvars>>

\* The bucket after upload_fileobj(data, key): an object at key is replaced.
PutObject(bucket, key, data) ==
    {o \in bucket : o.key # key} \cup {[key |-> key, data |-> data]}

\* uploaded_ws_count = got_ws if not args.dry_run else 0 (line 361).
UploadedCount(n, dry_run) == IF ~dry_run THEN n ELSE 0

\* Lines 349-356: the keys the process may derive for name, one per order in
\* which it may visit the known suffixes.
DerivedKeys(name) ==
    {s3_object_key(parse_prefixed_workspace(name, order)[1],
                   parse_prefixed_workspace(name, order)[2]) : order \in SuffixOrders}

\* Lines 349-370 with upload_to_s3 (lines 217-229).
Upload ==
    /\ pc = "upload"
    /\ \E key \in DerivedKeys(ws.name) :
         IF ~args.dry_run
         THEN \E o \in UploadOutcomes :
                /\ reqs' = reqs \cup
                     {[Req("upload", "upload", o) EXCEPT !.key = key, !.data = tfstate]}
                /\ IF o = "ok"
                   THEN /\ s3' = PutObject(s3, key, tfstate)
                        /\ uploaded_ws_count' =
                             UploadedCount(got_ws, args.dry_run)
                        /\ log' = Logged(log, "upload")
                        /\ pc' = "loop"
                        /\ UNCHANGED exit_status
                   ELSE /\ pc' = "done"
                        /\ exit_status' = 1
                        /\ UNCHANGED <<s3, uploaded_ws_count, log>>
         ELSE /\ uploaded_ws_count' =
                   UploadedCount(got_ws, args.dry_run)
              /\ log' = Logged(log, "upload")
              /\ pc' = "loop"
              /\ UNCHANGED <<reqs, s3, exit_status>>
    /\ UNCHANGED <<args, workspaces, fs, got_ws, ws, total_ws_count,
                   skipped_workspaces, metadata, tfstate, pending, skipped_file,
                   writes, stats_report, rerunvars, parsevars, dtvars>>

\* Lines 372-383: reached when the loop ends (exhausted or limit reached).
SaveAndReport ==
    /\ pc = "save"
    /\ IF skipped_workspaces # <<>>
       THEN /\ skipped_file' = [written |-> TRUE, content |-> skipped_workspaces]
            /\ writes' = writes \cup {<<"skipped_workspaces.json">>}
       ELSE UNCHANGED <<skipped_file, writes>>
    /\ \E stats \in BOOLEAN :
         stats_report' = IF stats
                         THEN [total |-> total_ws_count,
                               uploaded |-> uploaded_ws_count,
                               skipped |-> Len(skipped_workspaces)]
                         ELSE stats_report
    /\ pc' = "done"
    /\ exit_status' = 0
    /\ UNCHANGED <<args, workspaces, fs, got_ws, ws, total_ws_count,
                   uploaded_ws_count, skipped_workspaces, metadata, tfstate,
                   pending, s3, reqs, log, rerunvars, parsevars, dtvars>>

Next ==
    \/ Start
    \/ NextWorkspace
    \/ LockWorkspace
    \/ FetchMetadata
    \/ FetchState
    \/ ExceptKeyboardInterrupt
    \/ ExceptNotFound
    \/ ExceptConflict
    \/ Finally
    \/ Upload
    \/ SaveAndReport

Spec == Init /\ [][Next]_vars

\* ------------------------------------------------------------- properties
Count(list, x) == Cardinality({i \in DOMAIN list : list[i] = x})

LockConflicts == {r \in reqs : r.op = "lock" /\ r.res = "Conflict"}
NotFounds == {r \in reqs : r.op = "metadata" /\ r.res = "NotFound"}
Interrupts == {r \in reqs : r.res = "Interrupt"}
UploadsDone == {r \in reqs : r.op = "upload" /\ r.res = "ok"}

\* The finally clause's unlock request for the current workspace raised.
UnlockRaised ==
    /\ pc = "done"
    /\ exit_status = 1
    /\ \E r \in reqs : /\ r.op = "unlock" /\ r.site = "finally"
                       /\ r.n = got_ws /\ r.res = "Error"

\* C1: in dry-run mode the run issues no lock, unlock or upload request and
\* writes nothing locally (no cache directory, metadata file, tfstate file or
\* skipped-workspaces file), whatever is enumerated and however calls end.
C1_DryRunNoSideEffects ==
    args.dry_run =>
        /\ \A r \in reqs : r.op \notin {"lock", "unlock", "upload"}
        /\ writes = {}
        /\ ~skipped_file.written
        /\ s3 = {}
        /\ fs.dir # "created"
        /\ \A n \in WsNames : fs.meta[n] # "fresh"

\* A dry run with a cache directory that went through a whole workspace.
C1_Witness ==
    /\ args.dry_run /\ args.cache_dir /\ ~args.skip_lock
    /\ pc = "done" /\ exit_status = 0
    /\ log["upload"] >= 1
    /\ \E r \in reqs : r.op = "metadata" /\ r.res = "ok"

\* C2: with locking enabled, a workspace whose lock request returned Conflict
\* is in the skip list exactly once from its handler on, however often the
\* record is enumerated; the skip list never holds two equal entries; nothing
\* is fetched or uploaded for it; and the loop goes on to the next workspace
\* (the run ends there only if the unlock request of the finally clause raises).
C2_ConflictSkippedOnce ==
    /\ \A i, j \in DOMAIN skipped_workspaces :
         i # j => skipped_workspaces[i] # skipped_workspaces[j]
    /\ \A r \in LockConflicts :
         /\ Locking
         /\ (r.n < got_ws \/ pc # "except_conflict")
              => Count(skipped_workspaces, workspaces[r.n]) = 1
         /\ \A q \in reqs : q.n = r.n => q.op \in {"lock", "unlock"}
         /\ r.n = got_ws =>
              /\ pc \in {"except_conflict", "finally", "loop", "save", "done"}
              /\ pc = "finally" => pending = "continue"
              /\ pc = "done" => exit_status = 0 \/ UnlockRaised

\* The same record met a lock conflict twice and the run went on to its end.
C2_Witness ==
    /\ pc = "done" /\ exit_status = 0
    /\ Len(workspaces) = 2 /\ workspaces[1] = workspaces[2]
    /\ \A n \in 1..2 : \E r \in LockConflicts : r.n = n
    /\ Len(skipped_workspaces) = 1

\* C3: after an interrupt in steps 1-3 the workspace gets an unlock request
\* (when locking is enabled), the process ends with exit status 130 whatever
\* the unlock attempt returns, and no later workspace is touched.
C3_InterruptExits130 ==
    \A r \in Interrupts :
        pc = "done" =>
            /\ exit_status = 130
            /\ Locking => \E q \in reqs : q.op = "unlock" /\ q.n = r.n
            /\ \A q \in reqs : q.n <= r.n

\* C4 as claimed: whenever the process has terminated with a non-empty skip
\* list, the skipped-workspaces file holds that list.
C4_SkippedAlwaysPersisted ==
    (pc = "done" /\ skipped_workspaces # <<>>) =>
        /\ skipped_file.written
        /\ skipped_file.content = skipped_workspaces

\* Index of the first lock conflict of record w.
FirstConflict(w) ==
    LET ns == {r.n : r \in {q \in LockConflicts : workspaces[q.n] = w}}
    IN  CHOOSE n \in ns : \A m \in ns : n <= m

\* C4 (amended): when the loop has ended (enumeration exhausted or limit
\* reached) and the skip list is non-empty, the skipped-workspaces file holds
\* exactly the workspaces that met a lock conflict, each once, in the order of
\* their first conflict; a run ended by an interrupt or an uncaught error has
\* written no skipped-workspaces file.
C4_SkippedPersistedAtLoopEnd ==
    pc = "done" =>
        IF exit_status = 0
        THEN /\ skipped_file.written <=> skipped_workspaces # <<>>
             /\ skipped_file.written =>
                  /\ skipped_file.content = skipped_workspaces
                  /\ {skipped_file.content[i] : i \in DOMAIN skipped_file.content}
                        = {workspaces[r.n] : r \in LockConflicts}
                  /\ \A i, j \in DOMAIN skipped_file.content :
                       i < j => FirstConflict(skipped_file.content[i])
                                   < FirstConflict(skipped_file.content[j])
        ELSE ~skipped_file.written

\* Two different workspaces were skipped and the loop ended.
C4_Witness ==
    /\ pc = "done" /\ exit_status = 0
    /\ skipped_file.written
    /\ Len(skipped_file.content) = 2

\* The current workspace's metadata request returned NotFound.
NotFoundNow == \E r \in NotFounds : r.n = got_ws

C5_Inv ==
    \A r \in NotFounds :
        /\ \A q \in reqs : q.n = r.n => q.op \in {"lock", "metadata", "unlock"}
        /\ r.n = got_ws =>
             /\ pc \in {"except_notfound", "finally", "loop", "save", "done"}
             /\ pc = "finally" => pending = "continue"
             /\ pc = "done" => exit_status = 0 \/ UnlockRaised

C5_Step ==
    (NotFoundNow /\ pc \in {"except_notfound", "finally"}) =>
        /\ skipped_workspaces' = skipped_workspaces
        /\ uploaded_ws_count' = uploaded_ws_count
        /\ s3' = s3
        /\ pc' \in {"finally", "loop"} \/ UnlockRaised'

\* C5: a workspace whose metadata request returns NotFound is not added to the
\* skip list, has nothing uploaded, leaves the uploaded counter as it was, and
\* the loop goes on to the next workspace (the run ends there only if the
\* unlock request of the finally clause raises).
C5_NotFoundMovesOn == []C5_Inv /\ [][C5_Step]_vars

\* A workspace without stored state was passed over and a later one uploaded.
C5_Witness ==
    /\ \E r \in NotFounds : r.n = 1
    /\ \E r \in UploadsDone : r.n = 2
    /\ skipped_workspaces = <<>>

\* C6: at the end of a non-dry run the uploaded count printed by --stats is
\* the number of workspaces whose state was uploaded during the run.
C6_UploadedCounterExact ==
    (pc = "done" /\ exit_status = 0 /\ ~args.dry_run /\ stats_report # NoReport) =>
        stats_report.uploaded = Cardinality(UploadsDone)

\* Indexes of the workspaces the loop body was entered for: each entry issues
\* a lock, metadata or state request.
Processed == {r.n : r \in reqs}

\* C7: with limit N > 0 no request is ever issued for a workspace after the
\* N-th, and when the loop ends with more than N workspaces enumerable exactly
\* the first N were processed; with limit 0 (or a limit not below the number
\* of workspaces) a loop that ends has processed every enumerated workspace.
C7_LimitStopsLoop ==
    LET N == args.limit_workspaces
    IN  /\ N > 0 => \A r \in reqs : r.n <= N
        /\ (pc = "done" /\ exit_status = 0) =>
             IF N > 0 /\ Len(workspaces) > N
             THEN Processed = 1..N /\ got_ws = N + 1
             ELSE Processed = 1..Len(workspaces)

\* Limit 1, two workspaces enumerable: the loop ended after the first.
C7_Witness ==
    /\ pc = "done" /\ exit_status = 0
    /\ args.limit_workspaces = 1 /\ Len(workspaces) = 2
    /\ \E r \in UploadsDone : r.n = 1

\* ------------------------------------------------- the key deriver alone
\* Lines 349-356 for one workspace name, in successive invocations of the
\* tool: each process visits the known suffixes in an order of its own.
InitParse ==
    /\ args = [dry_run |-> FALSE, skip_lock |-> FALSE, cache_dir |-> FALSE,
               limit_workspaces |-> 0]
    /\ workspaces = <<>>
    /\ fs = [dir |-> "none", meta |-> [n \in WsNames |-> "unknown"]]
    /\ MainLocals
    /\ s3 = {}
    /\ skipped_file = [written |-> FALSE, content |-> <<>>]
    /\ run = 1
    /\ prev = NoPrev
    /\ p_name \in Names
    /\ p_results = <<>>
    /\ InitDtIdle

DeriveKey ==
    /\ Len(p_results) < MaxRuns
    /\ \E order \in SuffixOrders :
         LET parsed == parse_prefixed_workspace(p_name, order)
         IN  p_results' = Append(p_results,
                 [prefix |-> parsed[1], suffix |-> parsed[2],
                  key |-> s3_object_key(parsed[1], parsed[2])])
    /\ UNCHANGED <<p_name, mainvars, rerunvars, dtvars>>

NextParse == DeriveKey

SpecParse == InitParse /\ [][NextParse]_vars

\* name ends, case-insensitively, with suffix, and the character before that
\* ending, if there is one, is no ASCII letter or digit.
EndsAsWord(name, suffix) ==
    /\ Len(name) >= Len(suffix)
    /\ \A i \in 1..Len(suffix) :
         Lower(name[Len(name) - Len(suffix) + i]) = suffix[i]
    /\ Len(name) > Len(suffix) => ~IsAlnum(name[Len(name) - Len(suffix)])

\* C8: parse_prefixed_workspace returns suffix S exactly when the name ends,
\* case-insensitively, with S not preceded by an ASCII letter or digit; the
\* prefix is then the name without S and without the one separator character
\* before it (so P + separator + S gives (P, S)); otherwise it returns
\* (name, "").
C8_ParseWholeTrailingWord ==
    \A i \in DOMAIN p_results :
        LET r == p_results[i]
        IN  /\ \A S \in WELL_KNOWN_WORKSPACES :
                 r.suffix = S <=> EndsAsWord(p_name, S)
            /\ r.suffix \in WELL_KNOWN_WORKSPACES =>
                 /\ r.prefix = SubSeq(p_name, 1, Len(p_name) - Len(r.suffix) - 1)
                 /\ Len(p_name) > Len(r.suffix) =>
                      /\ Len(r.prefix) + 1 + Len(r.suffix) = Len(p_name)
                      /\ \A k \in 1..Len(r.prefix) : r.prefix[k] = p_name[k]
            /\ r.suffix \notin WELL_KNOWN_WORKSPACES =>
                 r.prefix = p_name /\ r.suffix = <<>>

\* "my-Dev" gave ("my", "dev") and "mydev" is left whole.
C8_Witness ==
    /\ Len(p_results) >= 1
    /\ \/ /\ p_name = <<"m","y","-","D","e","v">>
          /\ p_results[1].prefix = <<"m","y">>
          /\ p_results[1].suffix = <<"d","e","v">>
       \/ /\ p_name = BACKEND_SVC_DEV
          /\ p_results[1].suffix = <<"d","e","v">>
          /\ Len(p_results[1].prefix) = 11

\* C9: the key derived for a name does not depend on the order in which the
\* known suffixes are tested: at most one known suffix matches a name, and
\* invocations that visit the suffixes in different orders derive the same
\* prefix, suffix and destination key.
C9_KeyIndependentOfOrder ==
    /\ Cardinality({S \in WELL_KNOWN_WORKSPACES : ReSearch(p_name, S)}) <= 1
    /\ \A i, j \in DOMAIN p_results : p_results[i] = p_results[j]

\* Two invocations derived the key of a name that carries a known suffix.
C9_Witness ==
    /\ Len(p_results) = 2
    /\ p_name = DEV_PROD
    /\ p_results[2].key =
         <<"env:/", "p","r","o","d", "/", "d","e","v", "/terraform.tfstate">>

\* ------------------------------------------- a dry run, then the live run
\* The operator runs the tool with --dry-run and, once that run has ended, runs
\* the same command line again without --dry-run. The bucket, the cache
\* directory and the skipped-workspaces file are what the first run left.
RunAgain ==
    /\ run = 1
    /\ pc = "done"
    /\ exit_status = 0
    /\ args.dry_run
    /\ run' = 2
    /\ prev' = [args |-> args, reqs |-> reqs, log |-> log,
                exit_status |-> exit_status]
    /\ args' = [args EXCEPT !.dry_run = FALSE]
    /\ pc' = "start"
    /\ got_ws' = 0
    /\ ws' = NoWs
    /\ total_ws_count' = 0
    /\ uploaded_ws_count' = 0
    /\ skipped_workspaces' = <<>>
    /\ metadata' = <<>>
    /\ tfstate' = <<>>
    /\ pending' = "none"
    /\ exit_status' = -1
    /\ writes' = {}
    /\ reqs' = {}
    /\ log' = [k \in LogKinds |-> 0]
    /\ stats_report' = NoReport
    /\ UNCHANGED <<workspaces, fs, s3, skipped_file, parsevars, dtvars>>

NextRerun ==
    \/ Next
    \/ RunAgain

SpecRerun == Init /\ [][NextRerun]_vars

\* Number of log entries that announce a lock, a metadata fetch, a state
\* fetch, an unlock or an upload.
ActionLogCount(l) == l["lock"] + l["meta"] + l["state"] + l["unlock"] + l["upload"]

\* How the metadata and state requests of a run ended, per workspace.
FetchOutcomes(rs) ==
    {<<r.op, r.n, r.res>> : r \in {q \in rs : q.op \in {"metadata", "state"}}}

\* C10: for the same workspaces and the same remote outcomes a dry run logs as
\* many action entries (lock, fetch metadata, fetch state, unlock, upload) as
\* the live run with locking enabled.
C10_DryRunLogsAsLiveRun ==
    (/\ run = 2 /\ pc = "done" /\ exit_status = 0
     /\ prev.args.dry_run /\ ~args.dry_run /\ ~args.skip_lock
     /\ FetchOutcomes(reqs) = FetchOutcomes(prev.reqs))
        => ActionLogCount(log) = ActionLogCount(prev.log)

\* ---------------------------------------------------------------------
\* maintenance_datetime.py: validation of the date-time arguments.
\* ---------------------------------------------------------------------

\* Longest text appended after the date-time in a generated argument.
MaxTrail == 1

\* A decimal digit outside ASCII (ARABIC-INDIC DIGIT TWO), kept as one
\* character: a str pattern's \d matches every Unicode decimal digit.
ARABIC_INDIC_TWO == "U+0662"

IsDecimal(c) == c \in Digits \/ c = ARABIC_INDIC_TWO

\* r'\d{2}\.\d{2}\.\d{4}\ \d{2}\:\d{2}', one item per character matched.
dt_re ==
    <<"\\d", "\\d", ".", "\\d", "\\d", ".", "\\d", "\\d", "\\d", "\\d", " ",
      "\\d", "\\d", ":", "\\d", "\\d">>

MatchItem(item, c) == IF item = "\\d" THEN IsDecimal(c) ELSE c = item

\* re.match: the pattern has to match at the start of the string; what
\* follows the match is not looked at.
ReMatch(pattern, string) ==
    /\ Len(string) >= Len(pattern)
    /\ \A i \in DOMAIN pattern : MatchItem(pattern[i], string[i])

ArgumentTypeError == [raised |-> TRUE, value |-> <<"ArgumentTypeError">>]

dt_regex(arg) ==
    IF ~ReMatch(dt_re, arg)
    THEN ArgumentTypeError
    ELSE [raised |-> FALSE, value |-> arg]

\* Arguments the command line can carry: well-formed and malformed fields,
\* both separator styles, text before and after.
DayFields == {<<"2", "1">>, <<"2">>}
MonthFields == {<<"0", "5">>, <<"0", "x">>}
YearFields == {<<"2", "0", "1", "8">>, <<"2", "0", "1">>}
HourFields == {<<"2", "1">>, <<ARABIC_INDIC_TWO, "1">>}
MinuteFields == {<<"3", "0">>, <<"3">>}
SeparatorStyles == {<<".", ".", " ", ":">>, <<"-", "-", " ", "-">>}
Leads == {<<>>, <<" ">>}
TrailChars == {"x", "0", "\n"}
Trails == UNION {[1..n -> TrailChars] : n \in 0..MaxTrail}

\* '2019-12-24 11-00', the argument of test_input_datetime_regex.
TEST_INPUT ==
    <<"2", "0", "1", "9", "-", "1", "2", "-", "2", "4", " ", "1", "1", "-", "0", "0">>

DtArgs ==
    {TEST_INPUT} \cup
    {lead \o d \o <<sep[1]>> \o m \o <<sep[2]>> \o y \o <<sep[3]>> \o h
          \o <<sep[4]>> \o mi \o trail :
        lead \in Leads, d \in DayFields, m \in MonthFields, y \in YearFields,
        h \in HourFields, mi \in MinuteFields, sep \in SeparatorStyles,
        trail \in Trails}

InitDt ==
    /\ args = [dry_run |-> FALSE, skip_lock |-> FALSE, cache_dir |-> FALSE,
               limit_workspaces |-> 0]
    /\ workspaces = <<>>
    /\ fs = [dir |-> "none", meta |-> [n \in WsNames |-> "unknown"]]
    /\ MainLocals
    /\ s3 = {}
    /\ skipped_file = [written |-> FALSE, content |-> <<>>]
    /\ run = 1
    /\ prev = NoPrev
    /\ InitParseIdle
    /\ d_arg \in DtArgs
    /\ d_result = NoDtResult

\* argparse applies type=dt_regex to dt_begin and dt_end.
ValidateArg ==
    /\ d_result = NoDtResult
    /\ d_result' = dt_regex(d_arg)
    /\ UNCHANGED <<d_arg, mainvars, rerunvars, parsevars>>

NextDt == ValidateArg

SpecDt == InitDt /\ [][NextDt]_vars

\* dd.mm.YYYY HH:MM and nothing else.
IsDtForm(s) ==
    /\ Len(s) = 16
    /\ \A i \in {1, 2, 4, 5, 7, 8, 9, 10, 12, 13, 15, 16} : IsDecimal(s[i])
    /\ s[3] = "." /\ s[6] = "." /\ s[11] = " " /\ s[14] = ":"

\* C11: dt_regex raises ArgumentTypeError for every argument that is not of
\* the form dd.mm.YYYY HH:MM (two digits, dot, two digits, dot, four digits,
\* space, two digits, colon, two digits, and nothing else) and returns every
\* argument of that form unchanged.
C11_DtRegexExact ==
    d_result # NoDtResult =>
        IF IsDtForm(d_arg)
        THEN d_result = [raised |-> FALSE, value |-> d_arg]
        ELSE d_result = ArgumentTypeError

\* ---------------------------------------------------------------------
\* Locks taken and released by main.
\* ---------------------------------------------------------------------

\* Lock requests the service granted.
LocksAcquired == {r \in reqs : r.op = "lock" /\ r.res = "ok"}

\* The tool has sent an unlock request for the n-th workspace.
UnlockRequested(n) == \E r \in reqs : r.op = "unlock" /\ r.n = n

\* The service answered an unlock request for the n-th workspace: the lock
\* is released, or (Conflict) it is no longer this tool's.
Released(n) == \E r \in reqs : r.op = "unlock" /\ r.n = n /\ r.res # "Error"

\* Workspaces whose lock the tool acquired and still holds.
HeldLocks == {r.n : r \in LocksAcquired} \ {n \in 1..MaxWs : Released(n)}

\* Every acquired lock has had its unlock request by the time the tool asks
\* for another lock, is about to upload, or has terminated.
UnlockRequestedBeforeMovingOn ==
    \A r \in LocksAcquired :
        /\ (\E q \in reqs : q.op = "lock" /\ q.n > r.n) => UnlockRequested(r.n)
        /\ (pc = "upload" /\ got_ws = r.n) => UnlockRequested(r.n)
        /\ (\E q \in reqs : q.op = "upload" /\ q.n = r.n) => UnlockRequested(r.n)
        /\ pc = "done" => UnlockRequested(r.n)

\* C12 as stated: with locking enabled every workspace the tool has locked
\* receives an unlock request before the next lock request, before its
\* upload and before the process terminates, on every path; the tool
\* therefore holds at most one lock at any time and none when it exits.
C12_UnlockBeforeMovingOn ==
    /\ UnlockRequestedBeforeMovingOn
    /\ Cardinality(HeldLocks) <= 1
    /\ pc = "done" => HeldLocks = {}

\* C12, amended: every workspace the tool has locked receives an unlock
\* request before the next lock request, before its upload and before the
\* process terminates, on every path; the tool holds at most one lock at any
\* time, and it exits holding a lock only when every unlock request for the
\* last workspace failed with an error other than Conflict, in which case the
\* process ends with exit status 1.
C12_UnlockRequestedBeforeMovingOn ==
    /\ UnlockRequestedBeforeMovingOn
    /\ Cardinality(HeldLocks) <= 1
    /\ (pc = "done" /\ HeldLocks # {}) =>
          /\ exit_status = 1
          /\ HeldLocks = {got_ws}
          /\ \A r \in reqs : (r.op = "unlock" /\ r.n = got_ws) => r.res = "Error"

\* Two workspaces locked in one run, one abandoned on NotFound and one
\* uploaded, both unlocked, the run finished.
C12_Witness ==
    /\ pc = "done" /\ exit_status = 0
    /\ Cardinality(LocksAcquired) = 2
    /\ \E r \in NotFounds : \E q \in LocksAcquired : q.n = r.n
    /\ \E r \in UploadsDone : \E q \in LocksAcquired : q.n = r.n
    /\ \A r \in LocksAcquired : UnlockRequested(r.n)

\* C13: the tool sends an unlock request for a workspace only if its own lock
\* request for that workspace succeeded in the same iteration; a workspace
\* whose lock request returned Conflict or was interrupted receives no unlock
\* request, so the tool never releases a lock it did not acquire.
C13_UnlockOnlyAfterOwnLock ==
    \A r \in reqs :
        r.op = "unlock" => \E q \in LocksAcquired : q.n = r.n

\* ---------------------------------------------------------------------
\* Destination keys of the workspaces of one run.
\* ---------------------------------------------------------------------

\* Names of the workspaces whose state has been uploaded.
UploadedNames == {workspaces[r.n].name : r \in UploadsDone}

\* C14: two workspaces with different names never derive the same
\* destination key, so within one run no upload overwrites the object that
\* was written for a different workspace.
C14_DistinctNamesDistinctKeys ==
    /\ \A r1, r2 \in UploadsDone :
          workspaces[r1.n].name # workspaces[r2.n].name => r1.key # r2.key
    /\ Cardinality(s3) = Cardinality(UploadedNames)

====
